---- MODULE Spec2Model ----
(***************************************************************************)
(* Model of src/tcp.rs: one passive TCP connection (Connection::accept,    *)
(* Connection::on_packet, Connection::write, Connection::send_rst and      *)
(* is_between_wrapped).                                                    *)
(*                                                                         *)
(* A u32 is kept at its full width.  TLC's integers are 32-bit signed, so  *)
(* a u32 is the pair <<hi, lo>> of its 16-bit halves; wrapping_add,        *)
(* wrapping_sub and the comparisons are computed on the halves.            *)
(***************************************************************************)
EXTENDS Integers, Sequences, FiniteSets

\* ------------------------------------------------------------------ bounds
\* payload lengths of inbound segments range over 0..MaxData
MaxData == 1
\* on_packet calls made on one connection
MaxCalls == 2
\* FnSpec: sequence numbers sent and not yet acknowledged, send.nxt - send.una
MaxOutstanding == 1

\* ------------------------------------------------------------- u32 values
\* 2^16: a u32 is <<hi, lo>> with value hi * 2^16 + lo
Half == 65536

U32(hi, lo) == <<hi, lo>>

\* `n as u32` for a small non-negative n (u16 window, usize length)
AsU32(n) == <<n \div Half, n % Half>>

U32Max == <<Half - 1, Half - 1>>

\* u32::wrapping_add
WrappingAdd(a, b) ==
    LET lo == a[2] + b[2]
        hi == a[1] + b[1] + (lo \div Half)
    IN  <<hi % Half, lo % Half>>

\* u32::wrapping_sub
WrappingSub(a, b) ==
    LET borrow == IF a[2] < b[2] THEN 1 ELSE 0
        lo == a[2] - b[2] + Half
        hi == a[1] - b[1] - borrow + Half
    IN  <<hi % Half, lo % Half>>

\* Ord for u32: start.cmp(x), <, <=
Lt(a, b) == a[1] < b[1] \/ (a[1] = b[1] /\ a[2] < b[2])
Le(a, b) == a = b \/ Lt(a, b)

Cmp(a, b) == IF a = b THEN "Equal" ELSE IF Lt(a, b) THEN "Less" ELSE "Greater"

\* ------------------------------------------------------ is_between_wrapped
\* is_between_wrapped with the end of the range let in (x = end gives TRUE)
is_between_wrapped_end_in(start, x, end) ==
    CASE Cmp(start, x) = "Equal" -> FALSE
      [] Cmp(start, x) = "Less" ->
            IF Le(start, end) /\ Lt(end, x) THEN FALSE ELSE TRUE
      [] Cmp(start, x) = "Greater" ->
            IF Lt(end, start) /\ Le(x, end) THEN TRUE ELSE FALSE

is_between_wrapped(start, x, end) ==
    CASE Cmp(start, x) = "Equal" -> FALSE
      [] Cmp(start, x) = "Less" ->
            \* if end >= start && end <= x { return false; }
            IF Le(start, end) /\ Le(end, x) THEN FALSE ELSE TRUE
      [] Cmp(start, x) = "Greater" ->
            \* if end < start && end > x { } else { return false; }
            IF Lt(end, start) /\ Lt(x, end) THEN TRUE ELSE FALSE

\* ------------------------------------------------------------------ State
\* the states a Connection object is ever given (Closed and Listen are
\* enum members that no code assigns)
States == {"SynRcvd", "Estab", "FinWait1", "FinWait2", "Closing"}

is_synchronized(state) ==
    CASE state = "SynRcvd" -> FALSE
      [] state \in {"Estab", "FinWait1", "FinWait2", "Closing"} -> TRUE

\* ------------------------------------------------------------- Connection
VARIABLES
    conn,   \* Option<Connection>: <<>> (no connection yet) or <<c>>
    nic,    \* the frames the last call handed to nic.send, in order
    ret,    \* how the last call returned
    call,   \* the last call: its name, its inbound segment, conn before it
    stage,  \* how far the last on_packet call got
    path,   \* the values the last call assigned to self.state, in order
    wr,     \* the write made inside the last call, if any
    calls,  \* on_packet calls made so far
    bw      \* the last direct evaluation of is_between_wrapped

vars == <<conn, nic, ret, call, stage, path, wr, calls, bw>>

\* let iss = 0;
iss == U32(0, 0)
\* let wnd = 10;
wnd == 10
\* let mut buf = [0u8; 1500];
BufLen == 1500
\* self.tcp.header_len() + self.ip.header_len(): both headers without options
HeaderLen == 40

Min(a, b) == IF a <= b THEN a ELSE b

\* the Connection that accept builds for a SYN with sequence number seqn and
\* window w, given the value recv_nxt of `tcph.sequence_number() + 1`
NewConnection(seqn, w, recv_nxt) ==
    [ state |-> "SynRcvd",
      send  |-> [iss |-> iss, una |-> iss, nxt |-> iss, wnd |-> wnd,
                 up |-> FALSE, wl1 |-> 0, wl2 |-> 0],
      recv  |-> [irs |-> seqn, nxt |-> recv_nxt, wnd |-> w, up |-> FALSE],
      tcp   |-> [syn |-> FALSE, ack |-> FALSE, fin |-> FALSE, rst |-> FALSE,
                 sequence_number |-> iss, acknowledgment_number |-> U32(0, 0)] ]

\* a frame as nic.send gets it: the TCP header fields and the payload length
Frame(tcp, len) ==
    [ syn |-> tcp.syn, ack |-> tcp.ack, fin |-> tcp.fin, rst |-> tcp.rst,
      seq |-> tcp.sequence_number, ackn |-> tcp.acknowledgment_number,
      len |-> len ]

\* `target.wrapping_add(k);` as an expression statement: the sum is computed
\* and dropped, target keeps its value
DroppedAdd(target, k) ==
    LET sum == WrappingAdd(target, k) IN target

NoWrite ==
    [ called |-> FALSE, syn |-> FALSE, fin |-> FALSE, nxt |-> U32(0, 0),
      n |-> 0, ok |-> FALSE ]

\* Connection::write(&mut self, nic, payload) with a payload of plen bytes;
\* io is whether nic.send succeeds.  Gives the connection after the call, the
\* frames sent, the result and the record of the call.
write(c, plen, io) ==
    LET tcp1 == [c.tcp EXCEPT !.sequence_number = c.send.nxt,
                              !.acknowledgment_number = c.recv.nxt]
        payload_bytes == Min(BufLen - HeaderLen, plen)
        nxt1 == DroppedAdd(c.send.nxt, AsU32(payload_bytes))
        nxt2 == IF tcp1.syn THEN DroppedAdd(nxt1, AsU32(1)) ELSE nxt1
        nxt3 == IF tcp1.fin THEN DroppedAdd(nxt2, AsU32(1)) ELSE nxt2
        tcp2 == [tcp1 EXCEPT !.syn = FALSE, !.fin = FALSE]
        c1   == [c EXCEPT !.tcp = tcp2, !.send.nxt = nxt3]
    IN  [ c    |-> c1,
          sent |-> IF io THEN <<Frame(tcp1, payload_bytes)>> ELSE <<>>,
          r    |-> IF io THEN "Ok" ELSE "Err",
          wr   |-> [ called |-> TRUE, syn |-> c.tcp.syn, fin |-> c.tcp.fin,
                     nxt |-> c.send.nxt, n |-> payload_bytes, ok |-> io ] ]

\* send_rst without `self.tcp.rst = true`
send_rst_flag_unset(c, io) ==
    LET tcp1 == [c.tcp EXCEPT !.sequence_number = U32(0, 0),
                              !.acknowledgment_number = U32(0, 0)]
    IN  write([c EXCEPT !.tcp = tcp1], 0, io)

\* Connection::send_rst(&mut self, nic)
send_rst(c, io) ==
    LET tcp1 == [c.tcp EXCEPT !.rst = TRUE,
                              !.sequence_number = U32(0, 0),
                              !.acknowledgment_number = U32(0, 0)]
    IN  write([c EXCEPT !.tcp = tcp1], 0, io)

\* ------------------------------------------------------------------ accept
\* `tcph.sequence_number() + 1` on u32: the sum wraps in a build without
\* overflow checks and panics in a build with them; checked says which
AddOne(seqn, checked) ==
    IF seqn = U32Max /\ checked THEN <<>> ELSE <<WrappingAdd(seqn, AsU32(1))>>

\* accept without the `if !tcph.syn()` return
accept_syn_unchecked(seg, io, checked) ==
    LET sum == AddOne(seg.seqn, checked) IN
    IF sum = <<>>
    THEN [conn |-> <<>>, sent |-> <<>>, r |-> "Panic", wr |-> NoWrite,
          path |-> <<>>]
    ELSE
    LET c0 == NewConnection(seg.seqn, seg.wnd, sum[1])
        c1 == [c0 EXCEPT !.tcp.syn = TRUE, !.tcp.ack = TRUE]
        w  == write(c1, 0, io)
    IN  IF w.r = "Err"
        THEN [conn |-> <<>>, sent |-> w.sent, r |-> "Err", wr |-> w.wr,
              path |-> <<"SynRcvd">>]
        ELSE [conn |-> <<w.c>>, sent |-> w.sent, r |-> "OkSome", wr |-> w.wr,
              path |-> <<"SynRcvd">>]

\* Connection::accept(nic, iph, tcph, data): the Option<Connection> the caller
\* holds afterwards, the frames sent and the result
accept(seg, io, checked) ==
    IF ~seg.syn
    THEN [conn |-> <<>>, sent |-> <<>>, r |-> "OkNone", wr |-> NoWrite,
          path |-> <<>>]
    ELSE
    LET sum == AddOne(seg.seqn, checked) IN
    IF sum = <<>>
    THEN [conn |-> <<>>, sent |-> <<>>, r |-> "Panic", wr |-> NoWrite,
          path |-> <<>>]
    ELSE
    LET c0 == NewConnection(seg.seqn, seg.wnd, sum[1])
        c1 == [c0 EXCEPT !.tcp.syn = TRUE, !.tcp.ack = TRUE]
        w  == write(c1, 0, io)
    IN  IF w.r = "Err"
        THEN [conn |-> <<>>, sent |-> w.sent, r |-> "Err", wr |-> w.wr,
              path |-> <<"SynRcvd">>]
        ELSE [conn |-> <<w.c>>, sent |-> w.sent, r |-> "OkSome", wr |-> w.wr,
              path |-> <<"SynRcvd">>]

\* --------------------------------------------------------------- on_packet
\* slen without the one for FIN
SegLenNoFin(seg) ==
    seg.dlen + (IF seg.syn THEN 1 ELSE 0)

\* slen: data.len() plus one for FIN and one for SYN
SegLen(seg) ==
    seg.dlen + (IF seg.fin THEN 1 ELSE 0) + (IF seg.syn THEN 1 ELSE 0)

\* the acceptable-ack check of on_packet
AckAcceptable(c, seg) ==
    is_between_wrapped(c.send.una, seg.ackn,
                       WrappingAdd(c.send.nxt, AsU32(1)))

\* the valid-segment check with the window taken to start after recv.nxt
SegAcceptableAfterNxt(rcv, seg) ==
    LET seqn == seg.seqn
        slen == SegLen(seg)
        wend == WrappingAdd(rcv.nxt, AsU32(rcv.wnd))
    IN  IF slen = 0
        THEN IF rcv.wnd = 0
             THEN seqn = rcv.nxt
             ELSE is_between_wrapped(rcv.nxt, seqn, wend)
        ELSE IF rcv.wnd = 0
             THEN FALSE
             ELSE \/ is_between_wrapped(rcv.nxt, seqn, wend)
                  \/ is_between_wrapped(rcv.nxt,
                        WrappingAdd(seqn, AsU32(slen - 1)), wend)

\* the valid-segment check of on_packet, on the receive space rcv
SegAcceptable(rcv, seg) ==
    LET seqn == seg.seqn
        slen == SegLen(seg)
        wend == WrappingAdd(rcv.nxt, AsU32(rcv.wnd))
        before == WrappingSub(rcv.nxt, AsU32(1))
    IN  IF slen = 0
        THEN IF rcv.wnd = 0
             THEN seqn = rcv.nxt
             ELSE is_between_wrapped(before, seqn, wend)
        ELSE IF rcv.wnd = 0
             THEN FALSE
             ELSE \/ is_between_wrapped(before, seqn, wend)
                  \/ is_between_wrapped(before,
                        WrappingAdd(seqn, AsU32(slen - 1)), wend)

Done(c, sent, r, st, pth, w) ==
    [c |-> c, sent |-> sent, r |-> r, stage |-> st, path |-> pth, wr |-> w]

\* the match on self.state with the FinWait1 arm moving to Closing
ReactFinWait1ToClosing(c, seg, io) ==
    CASE c.state = "SynRcvd" ->
            IF ~seg.ack
            THEN Done(c, <<>>, "Ok", "accepted", <<>>, NoWrite)
            ELSE
            LET c1 == [c EXCEPT !.state = "Estab", !.tcp.fin = TRUE]
                w  == write(c1, 0, io)
            IN  IF w.r = "Err"
                THEN Done(w.c, w.sent, "Err", "accepted", <<"Estab">>, w.wr)
                ELSE Done([w.c EXCEPT !.state = "FinWait1"], w.sent, "Ok",
                          "accepted", <<"Estab", "FinWait1">>, w.wr)
      [] c.state = "Estab" ->
            Done(c, <<>>, "Panic", "accepted", <<>>, NoWrite)
      [] c.state = "FinWait1" ->
            IF ~seg.fin \/ seg.dlen # 0
            THEN Done(c, <<>>, "Panic", "accepted", <<>>, NoWrite)
            ELSE Done([c EXCEPT !.state = "Closing"], <<>>, "Ok",
                      "accepted", <<"Closing">>, NoWrite)
      [] c.state = "Closing" ->
            IF ~seg.fin \/ seg.dlen # 0
            THEN Done(c, <<>>, "Panic", "accepted", <<>>, NoWrite)
            ELSE
            LET c1 == [c EXCEPT !.tcp.fin = FALSE]
                w  == write(c1, 0, io)
            IN  IF w.r = "Err"
                THEN Done(w.c, w.sent, "Err", "accepted", <<>>, w.wr)
                ELSE Done([w.c EXCEPT !.state = "Closing"], w.sent, "Ok",
                          "accepted", <<"Closing">>, w.wr)
      [] OTHER ->
            Done(c, <<>>, "Ok", "accepted", <<>>, NoWrite)

\* the match on self.state at the end of on_packet; c already has send.una
\* and recv.nxt updated
React(c, seg, io) ==
    CASE c.state = "SynRcvd" ->
            IF ~seg.ack
            THEN Done(c, <<>>, "Ok", "accepted", <<>>, NoWrite)
            ELSE
            LET c1 == [c EXCEPT !.state = "Estab", !.tcp.fin = TRUE]
                w  == write(c1, 0, io)
            IN  IF w.r = "Err"
                THEN Done(w.c, w.sent, "Err", "accepted", <<"Estab">>, w.wr)
                ELSE Done([w.c EXCEPT !.state = "FinWait1"], w.sent, "Ok",
                          "accepted", <<"Estab", "FinWait1">>, w.wr)
      [] c.state = "Estab" ->
            \* unimplemented!()
            Done(c, <<>>, "Panic", "accepted", <<>>, NoWrite)
      [] c.state = "FinWait1" ->
            IF ~seg.fin \/ seg.dlen # 0
            THEN Done(c, <<>>, "Panic", "accepted", <<>>, NoWrite)
            ELSE Done([c EXCEPT !.state = "FinWait2"], <<>>, "Ok",
                      "accepted", <<"FinWait2">>, NoWrite)
      [] c.state = "Closing" ->
            IF ~seg.fin \/ seg.dlen # 0
            THEN Done(c, <<>>, "Panic", "accepted", <<>>, NoWrite)
            ELSE
            LET c1 == [c EXCEPT !.tcp.fin = FALSE]
                w  == write(c1, 0, io)
            IN  IF w.r = "Err"
                THEN Done(w.c, w.sent, "Err", "accepted", <<>>, w.wr)
                ELSE Done([w.c EXCEPT !.state = "Closing"], w.sent, "Ok",
                          "accepted", <<"Closing">>, w.wr)
      [] OTHER ->
            \* FinWait2 has no arm in the match: nothing is done
            Done(c, <<>>, "Ok", "accepted", <<>>, NoWrite)

\* Connection::on_packet(&mut self, nic, iph, tcph, data)
on_packet(c, seg, io) ==
    IF ~AckAcceptable(c, seg)
    THEN IF ~is_synchronized(c.state)
         THEN \* self.send_rst(nic); the io::Result is dropped
              LET w == send_rst(c, io)
              IN  Done(w.c, w.sent, "Ok", "ack_rejected", <<>>, w.wr)
         ELSE Done(c, <<>>, "Ok", "ack_rejected", <<>>, NoWrite)
    ELSE
    LET c1 == [c EXCEPT !.send.una = seg.ackn] IN
    IF ~SegAcceptable(c1.recv, seg)
    THEN Done(c1, <<>>, "Ok", "seg_rejected", <<>>, NoWrite)
    ELSE
    LET c2 == [c1 EXCEPT !.recv.nxt =
                  WrappingAdd(seg.seqn, AsU32(SegLen(seg)))]
    IN  React(c2, seg, io)

\* ------------------------------------------------------ inbound segments
\* sequence numbers of inbound SYNs: small ones and the ones next to 2^32
SeqVals == { U32(0, 0), U32(0, 1000), U32(Half - 1, Half - 2), U32Max }

\* windows the peer advertises in its SYN
WndVals == { 0, 5000 }

Segment(syn, ack, fin, seqn, ackn, w, dlen) ==
    [ syn |-> syn, ack |-> ack, fin |-> fin, seqn |-> seqn, ackn |-> ackn,
      wnd |-> w, dlen |-> dlen ]

\* segments handed to accept
AcceptSegs ==
    { Segment(syn, ack, fin, seqn, U32(0, 0), w, dlen) :
        syn \in BOOLEAN, ack \in BOOLEAN, fin \in BOOLEAN,
        seqn \in SeqVals, w \in WndVals, dlen \in 0..MaxData }

\* sequence numbers around the receive window of c
SeqAround(c) ==
    { WrappingSub(c.recv.nxt, AsU32(1)),
      c.recv.nxt,
      WrappingSub(WrappingAdd(c.recv.nxt, AsU32(c.recv.wnd)), AsU32(1)),
      WrappingAdd(c.recv.nxt, AsU32(c.recv.wnd)) }

\* acknowledgment numbers around the unacknowledged range of c
AckAround(c) ==
    { c.send.una,
      WrappingAdd(c.send.una, AsU32(1)),
      c.send.nxt,
      WrappingAdd(c.send.nxt, AsU32(1)) }

\* segments handed to on_packet of connection c
PacketSegs(c) ==
    { Segment(syn, ack, fin, seqn, ackn, 0, dlen) :
        syn \in BOOLEAN, ack \in BOOLEAN, fin \in BOOLEAN,
        seqn \in SeqAround(c), ackn \in AckAround(c), dlen \in 0..MaxData }

NoSegment == Segment(FALSE, FALSE, FALSE, U32(0, 0), U32(0, 0), 0, 0)

NoCall == [ op |-> "none", seg |-> NoSegment, pre |-> <<>> ]

\* no evaluation of is_between_wrapped on its own yet
NoBetween ==
    [ called |-> FALSE, start |-> U32(0, 0), x |-> U32(0, 0),
      end |-> U32(0, 0), r |-> FALSE ]

\* ----------------------------------------------------------------- actions
Init ==
    /\ conn = <<>>
    /\ nic = <<>>
    /\ ret = "Init"
    /\ call = NoCall
    /\ stage = "none"
    /\ path = <<>>
    /\ wr = NoWrite
    /\ calls = 0
    /\ bw = NoBetween

\* the caller hands an inbound segment to Connection::accept while it holds
\* no connection
Accept ==
    /\ conn = <<>>
    /\ ret # "Panic"
    /\ \E seg \in AcceptSegs, io \in BOOLEAN, checked \in BOOLEAN :
         \E a \in {accept(seg, io, checked)} :
             /\ conn' = a.conn
             /\ nic' = a.sent
             /\ ret' = a.r
             /\ call' = [op |-> "accept", seg |-> seg, pre |-> conn]
             /\ stage' = "none"
             /\ path' = a.path
             /\ wr' = a.wr
             /\ calls' = calls
             /\ bw' = bw

\* the caller hands an inbound segment to on_packet of the connection it holds
OnPacket ==
    /\ conn # <<>>
    /\ ret # "Panic"
    /\ calls < MaxCalls
    /\ \E seg \in PacketSegs(conn[1]), io \in BOOLEAN :
         \E p \in {on_packet(conn[1], seg, io)} :
             /\ conn' = <<p.c>>
             /\ nic' = p.sent
             /\ ret' = p.r
             /\ call' = [op |-> "on_packet", seg |-> seg, pre |-> conn]
             /\ stage' = p.stage
             /\ path' = p.path
             /\ wr' = p.wr
             /\ calls' = calls + 1
             /\ bw' = bw

Next == Accept \/ OnPacket

Spec == Init /\ [][Next]_vars

\* ------------------------------------- on_packet on any Connection value
\* send spaces: una next to 0 and next to 2^32, nxt at most MaxOutstanding on
UnaVals == { U32(0, 0), U32(0, 1), U32(Half - 1, Half - 2), U32Max }

\* receive spaces: recv.nxt next to 0, in the middle, next to 2^32
RcvNxtVals == { U32(0, 0), U32(0, 1001), U32Max }

RcvWndVals == { 0, 2, Half - 1 }

\* a Connection as on_packet may find it: any state, nothing of the last
\* emission left set but the ACK flag
Connections ==
    { [ state |-> st,
        send  |-> [iss |-> iss, una |-> una,
                   nxt |-> WrappingAdd(una, AsU32(k)), wnd |-> wnd,
                   up |-> FALSE, wl1 |-> 0, wl2 |-> 0],
        recv  |-> [irs |-> WrappingSub(rn, AsU32(1)), nxt |-> rn, wnd |-> rw,
                   up |-> FALSE],
        tcp   |-> [syn |-> FALSE, ack |-> TRUE, fin |-> FALSE, rst |-> FALSE,
                   sequence_number |-> WrappingAdd(una, AsU32(k)),
                   acknowledgment_number |-> rn] ] :
        st \in States, una \in UnaVals, k \in 0..MaxOutstanding,
        rn \in RcvNxtVals, rw \in RcvWndVals }

InitFn ==
    /\ conn \in { <<c>> : c \in Connections }
    /\ nic = <<>>
    /\ ret = "Init"
    /\ call = NoCall
    /\ stage = "none"
    /\ path = <<>>
    /\ wr = NoWrite
    /\ calls = 0
    /\ bw = NoBetween

\* on_packet applied once to the Connection drawn
NextFn == ret = "Init" /\ OnPacket

FnSpec == InitFn /\ [][NextFn]_vars

\* ------------------------------------------- is_between_wrapped on its own
\* arguments of is_between_wrapped: next to 0, at 2^31 and next to 2^32
BwVals ==
    { U32(0, 0), U32(0, 1), U32(0, 2), U32(Half \div 2, 0),
      U32(Half - 1, Half - 2), U32Max }

\* is_between_wrapped(start, x, end) is evaluated
Between ==
    /\ \E start \in BwVals, x \in BwVals, end \in BwVals :
         bw' = [ called |-> TRUE, start |-> start, x |-> x, end |-> end,
                 r |-> is_between_wrapped(start, x, end) ]
    /\ UNCHANGED <<conn, nic, ret, call, stage, path, wr, calls>>

NextBw == Between

BwSpec == Init /\ [][NextBw]_vars

\* =================================================================== claims
\* the connection before and after the last on_packet call
Pre == call.pre[1]
Cur == conn[1]

\* (a - b) mod 2^32
Dist(a, b) == WrappingSub(a, b)

\* transport did not fail in the last call
IoOk == wr.called => wr.ok

\* ackn lies in (una, nxt] in wraparound order:
\* 0 < (ackn - una) mod 2^32 <= (nxt - una) mod 2^32
InAckRange(snd, ackn) ==
    /\ Dist(ackn, snd.una) # U32(0, 0)
    /\ Le(Dist(ackn, snd.una), Dist(snd.nxt, snd.una))

\* s lies in [recv.nxt, recv.nxt + recv.wnd) in wraparound order
InWindow(rcv, s) == Lt(Dist(s, rcv.nxt), AsU32(rcv.wnd))

\* payload length + 1 if FIN + 1 if SYN
ClaimSlen(seg) ==
    seg.dlen + (IF seg.fin THEN 1 ELSE 0) + (IF seg.syn THEN 1 ELSE 0)

\* b is a or ahead of a in wraparound order: (b - a) mod 2^32 < 2^31
NotBehind(a, b) == Dist(b, a)[1] < Half \div 2

\* C1: for every inbound segment with SYN set (and a transport that works),
\* accept returns a new connection in SynRcvd with recv.irs = seq,
\* recv.nxt = seq + 1 mod 2^32, recv.wnd = the peer's window, and has sent
\* exactly one segment: SYN and ACK set, no payload, seq = iss,
\* ack = recv.nxt.
C1_AcceptSyn ==
    (call.op = "accept" /\ call.seg.syn /\ IoOk) =>
        /\ ret = "OkSome"
        /\ Len(conn) = 1
        /\ Cur.state = "SynRcvd"
        /\ Cur.recv.irs = call.seg.seqn
        /\ Cur.recv.nxt = WrappingAdd(call.seg.seqn, AsU32(1))
        /\ Cur.recv.wnd = call.seg.wnd
        /\ Len(nic) = 1
        /\ nic[1].syn /\ nic[1].ack /\ nic[1].len = 0
        /\ nic[1].seq = iss
        /\ nic[1].ackn = Cur.recv.nxt

\* C2: on_packet takes the acknowledgment number as acceptable exactly when
\* it lies in (send.una, send.nxt] in wraparound order; then send.una becomes
\* ackn, and otherwise send.una keeps its value.
C2_AckTest ==
    call.op = "on_packet" =>
        IF InAckRange(Pre.send, call.seg.ackn)
        THEN stage # "ack_rejected" /\ Cur.send.una = call.seg.ackn
        ELSE stage = "ack_rejected" /\ Cur.send.una = Pre.send.una

C2_Witness ==
    /\ call.op = "on_packet"
    /\ InAckRange(Pre.send, call.seg.ackn)
    /\ Cur.send.una = call.seg.ackn
    /\ Cur.send.una # Pre.send.una

\* the acceptance rule of C3 on receive space rcv
ClaimSegOk(rcv, seg) ==
    LET slen == ClaimSlen(seg) IN
    \/ slen = 0 /\ rcv.wnd = 0 /\ seg.seqn = rcv.nxt
    \/ slen = 0 /\ rcv.wnd > 0 /\ InWindow(rcv, seg.seqn)
    \/ slen > 0 /\ rcv.wnd > 0
       /\ \/ InWindow(rcv, seg.seqn)
          \/ InWindow(rcv, WrappingAdd(seg.seqn, AsU32(slen - 1)))

\* C3: a segment that passed the ACK test is accepted exactly when
\* slen = 0, recv.wnd = 0 and seq = recv.nxt; or slen = 0, recv.wnd > 0 and
\* seq in [recv.nxt, recv.nxt + recv.wnd); or slen > 0, recv.wnd > 0 and seq
\* or seq + slen - 1 in that range (so never with slen > 0 and recv.wnd = 0).
C3_SegTest ==
    (call.op = "on_packet" /\ stage # "ack_rejected") =>
        /\ (stage = "accepted") <=> ClaimSegOk(Pre.recv, call.seg)
        /\ (ClaimSlen(call.seg) > 0 /\ Pre.recv.wnd = 0) =>
               stage = "seg_rejected"

\* accepted on its last byte alone: seq is before the window
C3_Witness ==
    /\ call.op = "on_packet"
    /\ stage = "accepted"
    /\ ClaimSlen(call.seg) > 0
    /\ ~InWindow(Pre.recv, call.seg.seqn)

\* C4: a SynRcvd connection that gets a segment with ACK set, no payload,
\* ack = iss + 1 and seq = recv.nxt sends one segment with FIN set in that
\* call and is left in FinWait1, having passed through Estab.
C4_SynRcvdAck ==
    ( /\ call.op = "on_packet"
      /\ Pre.state = "SynRcvd"
      /\ call.seg.ack /\ ~call.seg.syn /\ ~call.seg.fin
      /\ call.seg.dlen = 0
      /\ call.seg.ackn = WrappingAdd(Pre.send.iss, AsU32(1))
      /\ call.seg.seqn = Pre.recv.nxt
      /\ IoOk ) =>
        /\ Cur.state = "FinWait1"
        /\ path = <<"Estab", "FinWait1">>
        /\ Len(nic) = 1
        /\ nic[1].fin

\* C5: after a successful write the SYN and FIN flags of the header template
\* are unset and send.nxt has advanced by the payload bytes written, plus one
\* if SYN was set before the call, plus one if FIN was.
C5_WriteAdvances ==
    (wr.called /\ wr.ok /\ Len(conn) = 1) =>
        /\ ~Cur.tcp.syn
        /\ ~Cur.tcp.fin
        /\ Cur.send.nxt =
              WrappingAdd(wr.nxt, AsU32(wr.n + (IF wr.syn THEN 1 ELSE 0)
                                             + (IF wr.fin THEN 1 ELSE 0)))

\* C6: a SynRcvd connection that gets a segment whose acknowledgment number
\* is outside (send.una, send.nxt] sends a segment with RST set, goes no
\* further with the segment, and keeps state, send.una, send.nxt, recv.nxt.
C6_RstInSynRcvd ==
    ( /\ call.op = "on_packet"
      /\ Pre.state = "SynRcvd"
      /\ ~InAckRange(Pre.send, call.seg.ackn) ) =>
        /\ stage = "ack_rejected"
        /\ wr.called
        /\ wr.ok => (Len(nic) = 1 /\ nic[1].rst)
        /\ Cur.state = "SynRcvd"
        /\ Cur.send.una = Pre.send.una
        /\ Cur.send.nxt = Pre.send.nxt
        /\ Cur.recv.nxt = Pre.recv.nxt

C6_Witness ==
    /\ call.op = "on_packet"
    /\ Pre.state = "SynRcvd"
    /\ ~InAckRange(Pre.send, call.seg.ackn)
    /\ Len(nic) = 1
    /\ nic[1].rst
    /\ Cur.state = "SynRcvd"

\* C7: after on_packet accepts a segment, recv.nxt = seq + slen mod 2^32; and
\* no on_packet call moves recv.nxt backwards in wraparound order.
C7_RcvNxt ==
    call.op = "on_packet" =>
        /\ stage = "accepted" =>
              Cur.recv.nxt =
                  WrappingAdd(call.seg.seqn, AsU32(ClaimSlen(call.seg)))
        /\ NotBehind(Pre.recv.nxt, Cur.recv.nxt)

C7_Witness ==
    /\ call.op = "on_packet"
    /\ stage = "accepted"
    /\ ret = "Ok"
    /\ call.seg.fin
    /\ Cur.recv.nxt # Pre.recv.nxt
    /\ Cur.recv.nxt = WrappingAdd(call.seg.seqn, AsU32(ClaimSlen(call.seg)))

C10_ErrorReturned ==
    (call.op \in {"accept", "on_packet"} /\ wr.called /\ ~wr.ok) =>
        ret = "Err"

\* the segment of C11 has reached a FinWait1 connection: FIN set, no
\* payload, seq = recv.nxt, ack = send.nxt
FinToFinWait1 ==
    /\ call.op = "on_packet"
    /\ Pre.state = "FinWait1"
    /\ call.seg.fin
    /\ call.seg.dlen = 0
    /\ call.seg.seqn = Pre.recv.nxt
    /\ call.seg.ackn = Pre.send.nxt

C12_BetweenEndIn ==
    bw.called =>
        ( bw.r <=> ( /\ bw.x # bw.start
                     /\ Le(Dist(bw.x, bw.start), Dist(bw.end, bw.start)) ) )

\* C12 as amended: is_between_wrapped(start, x, end) is true exactly when
\* 0 < (x - start) mod 2^32 < (end - start) mod 2^32; so it is false when
\* x = start, when x = end, and for every x when start = end.
C12_BetweenStrict ==
    bw.called =>
        /\ bw.r <=> ( /\ Dist(bw.x, bw.start) # U32(0, 0)
                      /\ Lt(Dist(bw.x, bw.start), Dist(bw.end, bw.start)) )
        /\ (bw.x = bw.start \/ bw.x = bw.end \/ bw.start = bw.end) => ~bw.r

\* true across the wrap: end is below start
C12_Witness ==
    /\ bw.called
    /\ bw.r
    /\ Lt(bw.end, bw.start)
    /\ Lt(bw.x, bw.end)

\* C13: in every state reached by accept and then on_packet calls, send.una
\* is at or before send.nxt counted from iss:
\* (send.una - iss) mod 2^32 <= (send.nxt - iss) mod 2^32.
C13_UnaBeforeNxt ==
    Len(conn) = 1 =>
        Le(Dist(Cur.send.una, Cur.send.iss), Dist(Cur.send.nxt, Cur.send.iss))

\* a connection from accept that has been through on_packet more than once
C13_Witness ==
    /\ call.op = "on_packet"
    /\ calls > 1
    /\ Len(conn) = 1
    /\ Le(Dist(Cur.send.una, Cur.send.iss), Dist(Cur.send.nxt, Cur.send.iss))

\* C14: accept ignores a segment whose SYN flag is unset, whatever its other
\* flags, sequence number and payload: it returns no connection, sends
\* nothing and builds no state.
C14_AcceptNoSyn ==
    (call.op = "accept" /\ ~call.seg.syn) =>
        /\ ret = "OkNone"
        /\ conn = <<>>
        /\ nic = <<>>
        /\ ~wr.called
        /\ path = <<>>

\* a segment with ACK, FIN and payload but no SYN was handed to accept
C14_Witness ==
    /\ call.op = "accept"
    /\ ~call.seg.syn
    /\ call.seg.ack
    /\ call.seg.fin
    /\ call.seg.dlen > 0
    /\ ret = "OkNone"
    /\ conn = <<>>

C16_RstZeroed ==
    (call.op = "on_packet" /\ stage = "ack_rejected" /\ wr.called /\ wr.ok) =>
        /\ Len(nic) = 1
        /\ nic[1].rst
        /\ nic[1].seq = U32(0, 0)
        /\ nic[1].ackn = U32(0, 0)

\* C17: when accept or on_packet has returned, the SYN, FIN and RST flags of
\* the connection's TCP header template are all unset.
C17_FlagsCleared ==
    ( /\ call.op \in {"accept", "on_packet"}
      /\ ret \in {"OkSome", "Ok", "Err"}
      /\ Len(conn) = 1 ) =>
        (~Cur.tcp.syn /\ ~Cur.tcp.fin /\ ~Cur.tcp.rst)

\* C19: a SynRcvd connection that gets a segment with the ACK flag unset
\* ignores it: the state stays SynRcvd and nothing is sent, whatever the
\* segment's acknowledgment number.
C19_SynRcvdNoAck ==
    (call.op = "on_packet" /\ Pre.state = "SynRcvd" /\ ~call.seg.ack) =>
        /\ Cur.state = "SynRcvd"
        /\ nic = <<>>
        /\ ~wr.called

====
